---- MODULE Spec2Model ----
(***************************************************************************)
(* Model of the Remotion Lambda launch handler                             *)
(* (packages/lambda/src/functions/launch.ts): frame-range planning,        *)
(* two-level fan-out, throttled progress reporting, finalization and the   *)
(* fatal-error wrapper.  Every await of the handler is one action; the     *)
(* store (S3) is a set of variables, one per key the handler writes.       *)
(***************************************************************************)
EXTENDS Integers, Sequences, FiniteSets, TLC

\* ---------------------------------------------------------------- bounds
\* Full launch flow (Spec): small jobs.
MaxFrames == 2
MaxFramesPerLambda == 2
MaxObservations == 1
\* Planner / dispatcher (PlanSpec): the scenarios of the planner need 100
\* frames at 20 frames per chunk.
MaxPlanFrames == 100
MaxPlanFramesPerLambda == 20
\* Progress reporter (ProgressSpec): 20 frames make 0.05 one frame; 10 frames
\* put every step on the 0.1 threshold, 7 frames none.
ProgressFrameCounts == {7, 10, 20}
MaxProgressObservations == 4

\* ------------------------------------------------------------- constants
NoProfile == [frameCount |-> 0, frameRange |-> <<>>]
NoMetadata == [totalChunks |-> 0, estimatedTotalLambdaInvokations |-> 0,
               estimatedRenderLambdaInvokations |-> 0,
               usesOptimizationProfile |-> FALSE, framesPerLambda |-> 0,
               durationInFrames |-> 0]
NoProgress == [framesEncoded |-> -1, totalFrames |-> 0, doneIn |-> "null",
               timeToInvoke |-> "null"]

\* ------------------------------------------------------- pure arithmetic
Min(a, b) == IF a <= b THEN a ELSE b

\* Math.ceil(a / b) for integers a >= 0, b > 0
CeilDiv(a, b) == (a + b - 1) \div b

\* launch.ts:90  const chunkCount = Math.ceil(comp.durationInFrames / framesPerLambda)
ChunkCountFloor(durationInFrames, framesPerLambda) ==
    durationInFrames \div framesPerLambda

ChunkCount(durationInFrames, framesPerLambda) ==
    CeilDiv(durationInFrames, framesPerLambda)

\* Math.round(Math.sqrt(n)) on a non-negative integer n: sqrt(n) is never
\* exactly r + 0.5, so the result is the r with (r-0.5)^2 < n < (r+0.5)^2,
\* that is r*r - r < n <= r*r + r.
RoundSqrt(n) ==
    IF n = 0 THEN 0
    ELSE CHOOSE r \in 1..n : r * r - r < n /\ n <= r * r + r

\* Math.floor(Math.sqrt(n))
FloorSqrt(n) ==
    IF n = 0 THEN 0
    ELSE CHOOSE r \in 1..n : r * r <= n /\ n < (r + 1) * (r + 1)

\* launch.ts:100  const invokers = Math.round(Math.sqrt(chunks.length))
InvokersFloor(chunkList) == FloorSqrt(Len(chunkList))

Invokers(chunkList) == RoundSqrt(Len(chunkList))

\* ------------------------------------------------------------- sequences
\* Array.prototype.sort((a, b) => a[0] - b[0]) is a stable sort by start:
\* an element goes behind every element with a smaller start and behind the
\* earlier elements with the same start.
RankByStart(s) ==
    [i \in 1..Len(s) |->
        Cardinality({j \in 1..Len(s) :
            \/ s[j][1] < s[i][1]
            \/ s[j][1] = s[i][1] /\ j < i}) + 1]

SortByStart(s) ==
    CHOOSE sorted \in
        {[k \in 1..Len(s) |-> s[CHOOSE i \in 1..Len(s) : rank[i] = k]] :
            rank \in {RankByStart(s)}} : TRUE

\* launch.ts:99  const sortedChunks = chunks.slice().sort((a, b) => a[0] - b[0])
SortedChunks(chunkList) == SortByStart(chunkList)

\* Array.prototype.indexOf, 0-based, -1 when absent
IndexOf(s, x) ==
    LET at == {i \in 1..Len(s) : s[i] = x}
    IN IF at = {} THEN -1
       ELSE (CHOOSE i \in at : \A j \in at : i <= j) - 1

\* number of frames of an inclusive range [start, end]
RangeLength(r) == r[2] - r[1] + 1

RECURSIVE SumLengths(_)
SumLengths(s) == IF s = <<>> THEN 0 ELSE RangeLength(Head(s)) + SumLengths(Tail(s))

\* ---------------------------------------------------------------- planner
\* chunk-optimization/plan-frame-ranges: the default partition cuts
\* [0, frameCount) into chunkCount slices of framesPerLambda frames, the last
\* one shortened to fit; ranges are [start, end] with an inclusive end.
DefaultFrameRanges(chunkCount, framesPerLambda, frameCount) ==
    [i \in 1..chunkCount |->
        <<(i - 1) * framesPerLambda, Min(frameCount, i * framesPerLambda) - 1>>]

planFrameRanges(chunkCount, framesPerLambda, frameCount, opt, shouldUseOptimization) ==
    IF shouldUseOptimization /\ opt # NoProfile /\ opt.frameCount = frameCount
    THEN [chunks |-> opt.frameRange, didUseOptimization |-> TRUE]
    ELSE [chunks |-> DefaultFrameRanges(chunkCount, framesPerLambda, frameCount),
          didUseOptimization |-> FALSE]

\* launch.ts:89-98  the planner call of innerLaunchHandler
PlanCallAlwaysOptimized(p, c, opt) ==
    planFrameRanges(ChunkCount(c.durationInFrames, p.framesPerLambda[1]),
                    p.framesPerLambda[1], c.durationInFrames, opt, TRUE)

PlanCall(p, c, opt) ==
    planFrameRanges(ChunkCount(c.durationInFrames, p.framesPerLambda[1]),
                    p.framesPerLambda[1], c.durationInFrames, opt,
                    p.enableChunkOptimization)

\* launch.ts:103-130  one renderer payload per chunk
PayloadsForListOrder(chunkList, sortedChunks) ==
    [i \in 1..Len(chunkList) |->
        [type |-> "renderer", frameRange |-> chunkList[i],
         chunk |-> i - 1,
         attempt |-> 1]]

PayloadsFor(chunkList, sortedChunks) ==
    [i \in 1..Len(chunkList) |->
        [type |-> "renderer", frameRange |-> chunkList[i],
         chunk |-> IndexOf(sortedChunks, chunkList[i]),
         attempt |-> 1]]

LambdaPayloads(chunkList) ==
    CHOOSE payloads \in
        {PayloadsFor(chunkList, sortedChunks) :
            sortedChunks \in {SortedChunks(chunkList)}} : TRUE

\* shared/chunk: partition a list into `groups` contiguous groups, the first
\* (length mod groups) of them one element longer.
chunk(input, groups) ==
    LET len == Len(input)
        base == len \div groups
        extra == len % groups
        startOf(g) == (g - 1) * base + Min(g - 1, extra)
        sizeOf(g) == base + (IF g <= extra THEN 1 ELSE 0)
    IN [g \in 1..groups |-> SubSeq(input, startOf(g) + 1, startOf(g) + sizeOf(g))]

\* launch.ts:166  const payloadChunks = chunk(lambdaPayloads, invokers)
PayloadChunksSkippingFirst(chunkList, inv) ==
    CHOOSE payloadChunks \in
        {chunk(Tail(lambdaPayloads), inv) :
            lambdaPayloads \in {LambdaPayloads(chunkList)}} : TRUE

PayloadChunks(chunkList, inv) ==
    CHOOSE payloadChunks \in
        {chunk(lambdaPayloads, inv) :
            lambdaPayloads \in {LambdaPayloads(chunkList)}} : TRUE

\* launch.ts:131-155  the RenderMetadata record
MakeRenderMetadata(p, c, chunkList, inv, didUse) ==
    [totalChunks |-> Len(chunkList),
     estimatedTotalLambdaInvokations |-> Len(chunkList) + inv,
     estimatedRenderLambdaInvokations |-> Len(chunkList),
     usesOptimizationProfile |-> didUse,
     framesPerLambda |-> p.framesPerLambda[1],
     durationInFrames |-> c.durationInFrames]

\* ------------------------------------------------------------- validation
\* launch.ts:57  if (!params.framesPerLambda): undefined (<<>>) and 0 are falsy
FramesPerLambdaMissing(p) == p.framesPerLambda = <<>> \/ p.framesPerLambda[1] = 0

\* api/validate-frames-per-lambda: a chunk size below 1 is rejected
validateFramesPerLambda(n) == n >= 1

\* remotion Internals.validateDurationInFrames / validateFps / validateDimension
validateDurationInFrames(n) == n >= 1
validateFps(n) == n >= 1
validateDimension(n) == n >= 1

\* shared/validate-privacy
validatePrivacy(privacy) == privacy \in {"public", "private"}

\* launch.ts:80-87  the checks made once the composition is known
CompositionChecksNoPrivacy(p, c) ==
    /\ validateDurationInFrames(c.durationInFrames)
    /\ validateFps(c.fps)
    /\ validateDimension(c.height)
    /\ validateDimension(c.width)

CompositionChecks(p, c) ==
    /\ validateDurationInFrames(c.durationInFrames)
    /\ validateFps(c.fps)
    /\ validateDimension(c.height)
    /\ validateDimension(c.width)
    /\ validatePrivacy(p.privacy)

\* ---------------------------------------------------- stored profiles
\* A stored profile was persisted only after validation: its ranges are a
\* contiguous partition of [0, frameCount), listed in any order
\* (optimizeInvocationOrder puts slow chunks first).
RECURSIVE SetToSeq(_)
SetToSeq(S) ==
    IF S = {} THEN <<>>
    ELSE LET m == CHOOSE x \in S : \A y \in S : x <= y
         IN <<m>> \o SetToSeq(S \ {m})

PartitionAt(frameCount, cuts) ==
    LET b == SetToSeq(cuts \cup {0, frameCount})
    IN [i \in 1..(Len(b) - 1) |-> <<b[i], b[i + 1] - 1>>]

Reorderings(s) ==
    {[i \in 1..Len(s) |-> s[perm[i]]] : perm \in Permutations(1..Len(s))}

ProfilesFor(frameCount, candidateCuts) ==
    LET cutPoints == {c \in candidateCuts : 0 < c /\ c < frameCount}
    IN {[frameCount |-> frameCount, frameRange |-> fr] :
            fr \in UNION {Reorderings(PartitionAt(frameCount, cuts)) :
                            cuts \in SUBSET cutPoints}}

\* What the composition key can hold when a job of frameCount frames starts:
\* nothing, a profile of a render of as many frames, or one of a render made
\* when the composition was one frame longer.
StoredProfiles(frameCount, candidateCuts) ==
    {NoProfile} \cup ProfilesFor(frameCount, candidateCuts)
                \cup ProfilesFor(frameCount + 1, {})

\* ------------------------------------------------------------ error records
\* launch.ts:384-394  the ErrorInfo written by the catch of launchHandler
FatalErrorInfoRetrying ==
    [type |-> "stitcher", isFatal |-> TRUE, attempt |-> 1, totalAttempts |-> 1,
     willRetry |-> TRUE, chunk |-> "null", frame |-> "null"]

FatalErrorInfo ==
    [type |-> "stitcher", isFatal |-> TRUE, attempt |-> 1, totalAttempts |-> 1,
     willRetry |-> FALSE, chunk |-> "null", frame |-> "null"]

\* launch.ts:222-234  the ErrorInfo written when a progress upload fails
ProgressErrorInfo ==
    [type |-> "stitcher", isFatal |-> FALSE, attempt |-> 1, totalAttempts |-> 1,
     willRetry |-> FALSE, chunk |-> "null", frame |-> "null"]

\* --------------------------------------------------------- progress reporter
\* launch.ts:193-202  relativeProgress - lastProgressUploaded < 0.1, with both
\* fractions over comp.durationInFrames.  The doubles differ from the exact
\* quotients by less than 1e-15, so the comparison agrees with the exact one
\* unless the exact difference is 1/10, where rounding decides (0.3 - 0.2 is
\* below 0.1, 0.2 - 0.1 is not): both outcomes are admitted there.
DeltaBelowThreshold(framesEncoded, lastUploaded, totalFrames) ==
    IF 10 * (framesEncoded - lastUploaded) < totalFrames THEN {TRUE}
    ELSE IF 10 * (framesEncoded - lastUploaded) > totalFrames THEN {FALSE}
    ELSE BOOLEAN

\* launch.ts:200  the throttle decision of onProgress
SkipsWriteNever(deltaBelow, framesEncoded, totalFrames) == FALSE

SkipsWriteUnlessComplete(deltaBelow, framesEncoded, totalFrames) ==
    deltaBelow /\ framesEncoded < totalFrames

SkipsWrite(deltaBelow, framesEncoded, totalFrames) == deltaBelow

\* launch.ts:206-211  the EncodingProgress a throttled write carries
MakeEncodingProgress(framesEncoded, totalFrames, stop) ==
    [framesEncoded |-> framesEncoded, totalFrames |-> totalFrames,
     doneIn |-> IF stop # 0 THEN "known" ELSE "null", timeToInvoke |-> "null"]

\* launch.ts:306-316  the EncodingProgress of the finalize phase
FinalEncodingProgress(totalFrames, stop) ==
    [framesEncoded |-> totalFrames, totalFrames |-> totalFrames,
     doneIn |-> IF stop # 0 THEN "known" ELSE "null", timeToInvoke |-> "known"]

\* ------------------------------------------------------ profile optimizer
\* chunk-optimization/is-valid-profile: contiguous, non-overlapping, no
\* zero-length range, covering exactly frameCount.  launch.ts:277 hands it
\* the optimized profile alone; the frame count it holds the ranges against
\* is the one of the render the profile was measured on.
isValidOptimizationProfile(frameRange, frameCount) ==
    LET sorted == SortByStart(frameRange)
    IN /\ frameRange # <<>>
       /\ \A i \in 1..Len(sorted) : sorted[i][2] >= sorted[i][1]
       /\ sorted[1][1] = 0
       /\ \A i \in 1..(Len(sorted) - 1) : sorted[i + 1][1] = sorted[i][2] + 1
       /\ sorted[Len(sorted)][2] = frameCount - 1

\* What optimizeInvocationOrder(optimizeProfileRecursively(chunkData, 400))
\* can hand back for the chunks of this render: the same ranges, or ranges
\* that lost the last frame.
OptimizerOutputs(chunkList) ==
    LET n == Len(chunkList)
        sorted == SortByStart(chunkList)
        lastRange == sorted[n]
        trimmed == [i \in 1..n |->
                       IF chunkList[i] = lastRange
                       THEN <<lastRange[1], lastRange[2] - 1>>
                       ELSE chunkList[i]]
    IN {chunkList, trimmed}

\* ------------------------------------------------------------------ state
VARIABLES
    params,            \* the LambdaPayload handed to launchHandler
    comp,              \* what validateComposition returns for the served site
    storedProfile,     \* the optimization profile under the composition key
    pc,                \* position of the handler
    failedAt,          \* where the exception that reached the catch was raised
    optimization,      \* launch.ts:63  result of getOptimization
    chunkCount,        \* launch.ts:90
    chunks,            \* launch.ts:92
    didUseOptimization,
    invokers,          \* launch.ts:100
    renderMetadata,    \* launch.ts:131
    s3RenderMetadata,  \* object under renderMetadataKey(renderId)
    fired,             \* payload groups for which an InvokeCommand was sent
    errorWrites,       \* ErrorInfo records handed to writeLambdaError
    s3Errors,          \* ErrorInfo records that reached the store
    lastProgressUploaded, \* launch.ts:189, as frames over comp.durationInFrames
    encodingStop,      \* launch.ts:190, 0 for null
    now,               \* Date.now()
    observed,          \* framesEncoded of the onProgress calls so far
    progressWrites,    \* framesEncoded of the throttled writes issued so far
    inflight,          \* throttled EncodingProgress writes not yet settled
    s3EncodingProgress, \* object under encodingProgressKey(renderId)
    tmpFiles,          \* outfile and scratch directories of concatVideosS3
    expectedFiles,     \* chunk outputs concatVideosS3 was told to wait for
    s3Out,             \* object under outName(renderId, codec)
    optimizedFrameRange, \* launch.ts:276, <<>> before the optimizer ran
    profileWrites,     \* profiles handed to writeOptimization
    chunkProm,         \* launch.ts:264
    lsProm,            \* launch.ts:299
    finalEncodingProgressProm,  \* launch.ts:317
    errorExplanationsProm,      \* launch.ts:326
    deletProm,         \* launch.ts:339
    postRenderWrites,  \* calls of writePostRenderData
    s3PostRenderData   \* object under postRenderDataKey(renderId)

inputVars == <<params, comp>>
planVars == <<optimization, chunkCount, chunks, didUseOptimization, invokers,
              renderMetadata>>
errorVars == <<errorWrites, s3Errors>>
progressVars == <<lastProgressUploaded, encodingStop, now, observed,
                  progressWrites, inflight, s3EncodingProgress>>
finalizeVars == <<tmpFiles, s3Out, optimizedFrameRange, profileWrites,
                  chunkProm,
                  lsProm, finalEncodingProgressProm, errorExplanationsProm,
                  deletProm, postRenderWrites, s3PostRenderData>>

vars == <<params, comp, storedProfile, pc, failedAt, optimization, chunkCount,
          chunks, didUseOptimization, invokers, renderMetadata,
          s3RenderMetadata, fired, errorWrites, s3Errors,
          lastProgressUploaded, encodingStop, now, observed, progressWrites,
          inflight, s3EncodingProgress, tmpFiles, expectedFiles, s3Out,
          optimizedFrameRange, profileWrites, chunkProm, lsProm, finalEncodingProgressProm,
          errorExplanationsProm, deletProm, postRenderWrites,
          s3PostRenderData>>

\* ------------------------------------------------------------------- Init
\* The state when launchHandler is entered.
FreshHandler ==
    /\ pc = "launchHandler"
    /\ failedAt = "none"
    /\ optimization = NoProfile
    /\ chunkCount = 0
    /\ chunks = <<>>
    /\ didUseOptimization = FALSE
    /\ invokers = 0
    /\ renderMetadata = NoMetadata
    /\ s3RenderMetadata = NoMetadata
    /\ fired = <<>>
    /\ errorWrites = <<>>
    /\ s3Errors = <<>>
    /\ lastProgressUploaded = 0
    /\ encodingStop = 0
    /\ now = 1
    /\ observed = <<>>
    /\ progressWrites = <<>>
    /\ inflight = {}
    /\ s3EncodingProgress = NoProgress
    /\ tmpFiles = "none"
    /\ expectedFiles = 0
    /\ s3Out = FALSE
    /\ optimizedFrameRange = <<>>
    /\ profileWrites = <<>>
    /\ chunkProm = "none"
    /\ lsProm = "none"
    /\ finalEncodingProgressProm = "none"
    /\ errorExplanationsProm = "none"
    /\ deletProm = "none"
    /\ postRenderWrites = 0
    /\ s3PostRenderData = FALSE

Init ==
    /\ params \in [type : {"launch", "renderer"},
                   framesPerLambda : {<<>>} \cup {<<n>> : n \in -1..MaxFramesPerLambda},
                   enableChunkOptimization : BOOLEAN,
                   privacy : {"public", "bogus"}]
    /\ comp \in [durationInFrames : 0..MaxFrames, fps : {0, 30},
                 height : {0, 720}, width : {0, 1280}]
    /\ storedProfile \in StoredProfiles(comp.durationInFrames, {1})
    /\ FreshHandler

\* ------------------------------------------------------- the catch block
\* An exception raised inside innerLaunchHandler at `where`.
Throw(where) ==
    /\ pc' = "catch"
    /\ failedAt' = where

\* ---------------------------------------------------------------- actions
\* launch.ts:374-379  launchHandler: the type check outside the try
LaunchHandlerEntryUnchecked ==
    /\ pc = "launchHandler"
    /\ pc' = "innerLaunchHandler"
    /\ UNCHANGED <<inputVars, storedProfile, failedAt, planVars,
                   s3RenderMetadata, fired, errorVars, progressVars,
                   finalizeVars, expectedFiles>>

LaunchHandlerEntry ==
    /\ pc = "launchHandler"
    /\ IF params.type # "launch"
       THEN pc' = "thrown" /\ failedAt' = "launchHandler"
       ELSE pc' = "innerLaunchHandler" /\ UNCHANGED failedAt
    /\ UNCHANGED <<inputVars, storedProfile, planVars, s3RenderMetadata, fired,
                   errorVars, progressVars, finalizeVars, expectedFiles>>

\* launch.ts:53-61  type check, framesPerLambda present and valid
CheckFramesPerLambda ==
    /\ pc = "innerLaunchHandler"
    /\ IF \/ params.type # "launch"
          \/ FramesPerLambdaMissing(params)
          \/ ~validateFramesPerLambda(params.framesPerLambda[1])
       THEN Throw("innerLaunchHandler")
       ELSE pc' = "getOptimization" /\ UNCHANGED failedAt
    /\ UNCHANGED <<inputVars, storedProfile, planVars, s3RenderMetadata, fired,
                   errorVars, progressVars, finalizeVars, expectedFiles>>

\* launch.ts:63-72  getBrowserInstance and the read of the stored profile
GetOptimization ==
    /\ pc = "getOptimization"
    /\ \E ok \in BOOLEAN :
          IF ok
          THEN /\ optimization' = storedProfile
               /\ pc' = "validateComposition"
               /\ UNCHANGED failedAt
          ELSE /\ Throw("getOptimization")
               /\ UNCHANGED optimization
    /\ UNCHANGED <<inputVars, storedProfile, chunkCount, chunks,
                   didUseOptimization, invokers, renderMetadata,
                   s3RenderMetadata, fired, errorVars, progressVars,
                   finalizeVars, expectedFiles>>

\* launch.ts:74-87  validateComposition and the composition/privacy checks
ValidateComposition ==
    /\ pc = "validateComposition"
    /\ IF CompositionChecks(params, comp)
       THEN pc' = "plan" /\ UNCHANGED failedAt
       ELSE Throw("validateComposition")
    /\ UNCHANGED <<inputVars, storedProfile, planVars, s3RenderMetadata, fired,
                   errorVars, progressVars, finalizeVars, expectedFiles>>

\* launch.ts:89-155  plan the chunks, count the invokers, build RenderMetadata
Plan ==
    /\ pc = "plan"
    /\ LET planned == PlanCall(params, comp, optimization)
           inv == Invokers(planned.chunks)
       IN /\ chunkCount' = ChunkCount(comp.durationInFrames, params.framesPerLambda[1])
          /\ chunks' = planned.chunks
          /\ didUseOptimization' = planned.didUseOptimization
          /\ invokers' = inv
          /\ renderMetadata' = MakeRenderMetadata(params, comp, planned.chunks,
                                                  inv, planned.didUseOptimization)
    /\ pc' = "writeRenderMetadata"
    /\ UNCHANGED <<inputVars, storedProfile, failedAt, optimization,
                   s3RenderMetadata, fired, errorVars, progressVars,
                   finalizeVars, expectedFiles>>

\* launch.ts:157-164  await lambdaWriteFile(renderMetadataKey)
WriteRenderMetadataUnawaited ==
    /\ pc = "writeRenderMetadata"
    /\ \E ok \in BOOLEAN :
          s3RenderMetadata' = IF ok THEN renderMetadata ELSE s3RenderMetadata
    /\ pc' = "dispatch"
    /\ UNCHANGED <<inputVars, storedProfile, failedAt, planVars, fired,
                   errorVars, progressVars, finalizeVars, expectedFiles>>

WriteRenderMetadata ==
    /\ pc = "writeRenderMetadata"
    /\ \E ok \in BOOLEAN :
          IF ok
          THEN /\ s3RenderMetadata' = renderMetadata
               /\ pc' = "dispatch"
               /\ UNCHANGED failedAt
          ELSE /\ Throw("writeRenderMetadata")
               /\ UNCHANGED s3RenderMetadata
    /\ UNCHANGED <<inputVars, storedProfile, planVars, fired, errorVars,
                   progressVars, finalizeVars, expectedFiles>>

\* launch.ts:166-250  one InvokeCommand per payload group, joined by
\* Promise.all: every send is issued, one rejected send rejects the join;
\* then concatVideosS3 is called with expectedFiles: chunkCount
Dispatch ==
    /\ pc = "dispatch"
    /\ \E payloadChunks \in {PayloadChunks(chunks, invokers)} :
          fired' = payloadChunks
    /\ \E ok \in BOOLEAN :
          IF ok
          THEN /\ pc' = "concatVideosS3"
               /\ expectedFiles' = chunkCount
               /\ UNCHANGED failedAt
          ELSE /\ Throw("dispatch")
               /\ UNCHANGED expectedFiles
    /\ UNCHANGED <<inputVars, storedProfile, planVars, s3RenderMetadata,
                   errorVars, progressVars, finalizeVars>>

\* launch.ts:192-239  onProgress, called by concatVideosS3 while it merges;
\* at most `limit` calls are followed
OnProgressUpTo(limit) ==
    /\ pc = "concatVideosS3"
    /\ Len(observed) < limit
    /\ \E framesEncoded \in 0..comp.durationInFrames :
       \E deltaBelow \in DeltaBelowThreshold(framesEncoded, lastProgressUploaded,
                                             comp.durationInFrames) :
          LET stop == IF framesEncoded = comp.durationInFrames
                      THEN now ELSE encodingStop
          IN /\ encodingStop' = stop
             /\ now' = now + 1
             /\ observed' = Append(observed, framesEncoded)
             /\ IF SkipsWrite(deltaBelow, framesEncoded, comp.durationInFrames)
                THEN UNCHANGED <<lastProgressUploaded, progressWrites, inflight>>
                ELSE /\ lastProgressUploaded' = framesEncoded
                     /\ progressWrites' = Append(progressWrites, framesEncoded)
                     /\ inflight' = inflight \cup
                            {MakeEncodingProgress(framesEncoded,
                                                  comp.durationInFrames, stop)}
    /\ UNCHANGED <<inputVars, storedProfile, pc, failedAt, planVars,
                   s3RenderMetadata, fired, errorVars, s3EncodingProgress,
                   finalizeVars, expectedFiles>>

OnProgress == OnProgressUpTo(MaxObservations)

OnProgressLong == OnProgressUpTo(MaxProgressObservations)

\* launch.ts:212-238  a throttled write settles; a rejection is reported as a
\* non-fatal ErrorInfo, and nothing waits for that report
ProgressWriteSettlesFatal ==
    /\ pc \notin {"catch", "failed", "thrown", "done"}
    /\ \E w \in inflight :
          /\ inflight' = inflight \ {w}
          /\ \E ok \in BOOLEAN :
                IF ok
                THEN /\ s3EncodingProgress' = w
                     /\ UNCHANGED <<pc, failedAt>>
                ELSE /\ Throw("onProgress")
                     /\ UNCHANGED s3EncodingProgress
    /\ UNCHANGED <<inputVars, storedProfile, planVars, s3RenderMetadata, fired,
                   errorVars, lastProgressUploaded, encodingStop, now, observed,
                   progressWrites, finalizeVars, expectedFiles>>

ProgressWriteSettles ==
    /\ \E w \in inflight :
          /\ inflight' = inflight \ {w}
          /\ \E ok \in BOOLEAN :
                IF ok
                THEN /\ s3EncodingProgress' = w
                     /\ UNCHANGED errorVars
                ELSE /\ errorWrites' = Append(errorWrites, ProgressErrorInfo)
                     /\ \E stored \in BOOLEAN :
                           s3Errors' = IF stored
                                       THEN Append(s3Errors, ProgressErrorInfo)
                                       ELSE s3Errors
                     /\ UNCHANGED s3EncodingProgress
    /\ UNCHANGED <<inputVars, storedProfile, pc, failedAt, planVars,
                   s3RenderMetadata, fired, lastProgressUploaded, encodingStop,
                   now, observed, progressWrites, finalizeVars, expectedFiles>>

\* launch.ts:241-253  concatVideosS3 returns or throws
ConcatVideosS3 ==
    /\ pc = "concatVideosS3"
    /\ \E ok \in BOOLEAN :
          IF ok
          THEN /\ tmpFiles' = "present"
               /\ encodingStop' = IF encodingStop = 0 THEN now ELSE encodingStop
               /\ now' = now + 1
               /\ pc' = "uploadOut"
               /\ UNCHANGED failedAt
          ELSE /\ Throw("concatVideosS3")
               /\ UNCHANGED <<tmpFiles, encodingStop, now>>
    /\ UNCHANGED <<inputVars, storedProfile, planVars, s3RenderMetadata, fired,
                   errorVars, lastProgressUploaded, observed, progressWrites,
                   inflight, s3EncodingProgress, s3Out, profileWrites,
                   optimizedFrameRange,
                   chunkProm, lsProm, finalEncodingProgressProm,
                   errorExplanationsProm, deletProm, postRenderWrites,
                   s3PostRenderData, expectedFiles>>

\* launch.ts:255-266, 297-305  upload the merged file; without chunk
\* optimization chunkProm is already resolved and the listing is requested
UploadOut ==
    /\ pc = "uploadOut"
    /\ \E ok \in BOOLEAN :
          IF ~ok
          THEN /\ Throw("uploadOut")
               /\ UNCHANGED <<s3Out, chunkProm, lsProm>>
          ELSE /\ s3Out' = TRUE
               /\ UNCHANGED failedAt
               /\ IF params.enableChunkOptimization
                  THEN /\ pc' = "collectChunkInformation"
                       /\ UNCHANGED <<chunkProm, lsProm>>
                  ELSE /\ pc' = "joinListing"
                       /\ chunkProm' = "resolved"
                       /\ lsProm' = "pending"
    /\ UNCHANGED <<inputVars, storedProfile, planVars, s3RenderMetadata, fired,
                   errorVars, progressVars, tmpFiles, profileWrites,
                   optimizedFrameRange,
                   finalEncodingProgressProm, errorExplanationsProm, deletProm,
                   postRenderWrites, s3PostRenderData, expectedFiles>>

\* launch.ts:277  isValidOptimizationProfile(optimizedProfile) ? write : skip
ShouldWriteOptimizationAlways(frameRange, frameCount) == TRUE

ShouldWriteOptimization(frameRange, frameCount) ==
    isValidOptimizationProfile(frameRange, frameCount)

\* launch.ts:267-305  collect the timings, optimize, validate, start the
\* profile write if the profile is valid, request the listing
CollectChunkInformation ==
    /\ pc = "collectChunkInformation"
    /\ \E ok \in BOOLEAN :
          IF ~ok
          THEN /\ Throw("collectChunkInformation")
               /\ UNCHANGED <<optimizedFrameRange, profileWrites, chunkProm,
                              lsProm>>
          ELSE /\ \E optimized \in OptimizerOutputs(chunks) :
                     /\ optimizedFrameRange' = optimized
                     /\ IF ShouldWriteOptimization(optimized,
                                                   comp.durationInFrames)
                        THEN /\ profileWrites' = Append(profileWrites,
                                    [frameCount |-> comp.durationInFrames,
                                     frameRange |-> optimized])
                             /\ chunkProm' = "pending"
                        ELSE /\ chunkProm' = "resolved"
                             /\ UNCHANGED profileWrites
               /\ lsProm' = "pending"
               /\ pc' = "joinListing"
               /\ UNCHANGED failedAt
    /\ UNCHANGED <<inputVars, storedProfile, planVars, s3RenderMetadata, fired,
                   errorVars, progressVars, tmpFiles, s3Out,
                   finalEncodingProgressProm, errorExplanationsProm, deletProm,
                   postRenderWrites, s3PostRenderData, expectedFiles>>

\* launch.ts:278-293  writeOptimization settles
WriteOptimizationSettles ==
    /\ chunkProm = "pending"
    /\ \E ok \in BOOLEAN :
          IF ok
          THEN /\ storedProfile' = profileWrites[Len(profileWrites)]
               /\ chunkProm' = "resolved"
          ELSE /\ chunkProm' = "rejected"
               /\ UNCHANGED storedProfile
    /\ UNCHANGED <<inputVars, pc, failedAt, planVars, s3RenderMetadata, fired,
                   errorVars, progressVars, tmpFiles, s3Out, profileWrites,
                   optimizedFrameRange,
                   lsProm, finalEncodingProgressProm, errorExplanationsProm,
                   deletProm, postRenderWrites, s3PostRenderData, expectedFiles>>

\* launch.ts:299-304  lambdaLs settles
LambdaLsSettles ==
    /\ lsProm = "pending"
    /\ \E ok \in BOOLEAN : lsProm' = IF ok THEN "resolved" ELSE "rejected"
    /\ UNCHANGED <<inputVars, storedProfile, pc, failedAt, planVars,
                   s3RenderMetadata, fired, errorVars, progressVars, tmpFiles,
                   s3Out, profileWrites,
                   optimizedFrameRange, chunkProm, finalEncodingProgressProm,
                   errorExplanationsProm, deletProm, postRenderWrites,
                   s3PostRenderData, expectedFiles>>

\* launch.ts:297-345  the join of chunkProm and the listing, then the final
\* progress write, inspectErrors and cleanupFiles are started
JoinListingWithoutChunkProm ==
    /\ pc = "joinListing"
    /\ \/ /\ lsProm = "rejected"
          /\ Throw("joinListing")
          /\ UNCHANGED <<finalEncodingProgressProm, errorExplanationsProm,
                         deletProm>>
       \/ /\ lsProm = "resolved"
          /\ finalEncodingProgressProm' = "pending"
          /\ errorExplanationsProm' = "pending"
          /\ deletProm' = "pending"
          /\ pc' = "awaitErrorExplanations"
          /\ UNCHANGED failedAt
    /\ UNCHANGED <<inputVars, storedProfile, planVars, s3RenderMetadata, fired,
                   errorVars, progressVars, tmpFiles, s3Out, profileWrites,
                   optimizedFrameRange, chunkProm, lsProm, postRenderWrites,
                   s3PostRenderData, expectedFiles>>

JoinListing ==
    /\ pc = "joinListing"
    /\ \/ /\ "rejected" \in {chunkProm, lsProm}
          /\ Throw("joinListing")
          /\ UNCHANGED <<finalEncodingProgressProm, errorExplanationsProm,
                         deletProm>>
       \/ /\ chunkProm = "resolved" /\ lsProm = "resolved"
          /\ finalEncodingProgressProm' = "pending"
          /\ errorExplanationsProm' = "pending"
          /\ deletProm' = "pending"
          /\ pc' = "awaitErrorExplanations"
          /\ UNCHANGED failedAt
    /\ UNCHANGED <<inputVars, storedProfile, planVars, s3RenderMetadata, fired,
                   errorVars, progressVars, tmpFiles, s3Out, profileWrites,
                   optimizedFrameRange,
                   chunkProm, lsProm, postRenderWrites, s3PostRenderData,
                   expectedFiles>>

\* launch.ts:317-324  the final EncodingProgress write settles
FinalEncodingProgressSettles ==
    /\ finalEncodingProgressProm = "pending"
    /\ \E ok \in BOOLEAN :
          IF ok
          THEN /\ s3EncodingProgress' =
                      FinalEncodingProgress(comp.durationInFrames, encodingStop)
               /\ finalEncodingProgressProm' = "resolved"
          ELSE /\ finalEncodingProgressProm' = "rejected"
               /\ UNCHANGED s3EncodingProgress
    /\ UNCHANGED <<inputVars, storedProfile, pc, failedAt, planVars,
                   s3RenderMetadata, fired, errorVars, lastProgressUploaded,
                   encodingStop, now, observed, progressWrites, inflight,
                   tmpFiles, s3Out, profileWrites,
                   optimizedFrameRange, chunkProm, lsProm,
                   errorExplanationsProm, deletProm, postRenderWrites,
                   s3PostRenderData, expectedFiles>>

\* launch.ts:326-332  inspectErrors settles
InspectErrorsSettles ==
    /\ errorExplanationsProm = "pending"
    /\ \E ok \in BOOLEAN :
          errorExplanationsProm' = IF ok THEN "resolved" ELSE "rejected"
    /\ UNCHANGED <<inputVars, storedProfile, pc, failedAt, planVars,
                   s3RenderMetadata, fired, errorVars, progressVars, tmpFiles,
                   s3Out, profileWrites,
                   optimizedFrameRange, chunkProm, lsProm,
                   finalEncodingProgressProm, deletProm, postRenderWrites,
                   s3PostRenderData, expectedFiles>>

\* launch.ts:334-344  cleanupFiles (deletion of the intermediate objects) settles
CleanupFilesSettles ==
    /\ deletProm = "pending"
    /\ \E ok \in BOOLEAN : deletProm' = IF ok THEN "resolved" ELSE "rejected"
    /\ UNCHANGED <<inputVars, storedProfile, pc, failedAt, planVars,
                   s3RenderMetadata, fired, errorVars, progressVars, tmpFiles,
                   s3Out, profileWrites,
                   optimizedFrameRange, chunkProm, lsProm,
                   finalEncodingProgressProm, errorExplanationsProm,
                   postRenderWrites, s3PostRenderData, expectedFiles>>

\* An await of a promise started earlier: continue at `next` once it is
\* resolved, throw once it is rejected.
Await(prom, here, next) ==
    /\ pc = here
    /\ prom # "pending"
    /\ IF prom = "resolved"
       THEN pc' = next /\ UNCHANGED failedAt
       ELSE Throw(here)

AwaitUnchanged ==
    UNCHANGED <<inputVars, storedProfile, planVars, s3RenderMetadata, fired,
                errorVars, progressVars, finalizeVars, expectedFiles>>

\* launch.ts:354  errorExplanations: await errorExplanationsProm
AwaitErrorExplanations ==
    /\ Await(errorExplanationsProm, "awaitErrorExplanations", "awaitDeletProm")
    /\ AwaitUnchanged

\* launch.ts:356  timeToDelete: await deletProm
AwaitDeletPromSkipped ==
    /\ pc = "awaitDeletProm"
    /\ pc' = "awaitFinalEncodingProgress"
    /\ UNCHANGED failedAt
    /\ AwaitUnchanged

AwaitDeletProm ==
    /\ Await(deletProm, "awaitDeletProm", "awaitFinalEncodingProgress")
    /\ AwaitUnchanged

\* launch.ts:358  await finalEncodingProgressProm
AwaitFinalEncodingProgressSkipped ==
    /\ pc = "awaitFinalEncodingProgress"
    /\ pc' = "writePostRenderData"
    /\ UNCHANGED failedAt
    /\ AwaitUnchanged

AwaitFinalEncodingProgress ==
    /\ Await(finalEncodingProgressProm, "awaitFinalEncodingProgress",
             "writePostRenderData")
    /\ AwaitUnchanged

\* launch.ts:359-365  await writePostRenderData
WritePostRenderData ==
    /\ pc = "writePostRenderData"
    /\ postRenderWrites' = postRenderWrites + 1
    /\ \E ok \in BOOLEAN :
          IF ok
          THEN /\ s3PostRenderData' = TRUE
               /\ pc' = "cleanupLocal"
               /\ UNCHANGED failedAt
          ELSE /\ Throw("writePostRenderData")
               /\ UNCHANGED s3PostRenderData
    /\ UNCHANGED <<inputVars, storedProfile, planVars, s3RenderMetadata, fired,
                   errorVars, progressVars, tmpFiles, s3Out, profileWrites,
                   optimizedFrameRange,
                   chunkProm, lsProm, finalEncodingProgressProm,
                   errorExplanationsProm, deletProm, expectedFiles>>

\* launch.ts:367  await Promise.all([cleanupChunksProm, fs.promises.rm(outfile)])
CleanupLocal ==
    /\ pc = "cleanupLocal"
    /\ \E ok \in BOOLEAN :
          IF ok
          THEN /\ tmpFiles' = "released"
               /\ pc' = "done"
               /\ UNCHANGED failedAt
          ELSE /\ Throw("cleanupLocal")
               /\ UNCHANGED tmpFiles
    /\ UNCHANGED <<inputVars, storedProfile, planVars, s3RenderMetadata, fired,
                   errorVars, progressVars, s3Out, profileWrites,
                   optimizedFrameRange, chunkProm,
                   lsProm, finalEncodingProgressProm, errorExplanationsProm,
                   deletProm, postRenderWrites, s3PostRenderData,
                   expectedFiles>>

\* launch.ts:380-398  the catch of launchHandler: one fatal ErrorInfo is
\* handed to writeLambdaError and awaited at 382 with no handler around it:
\* when that write is rejected the rejection leaves launchHandler.
CatchBlock ==
    /\ pc = "catch"
    /\ errorWrites' = Append(errorWrites, FatalErrorInfo)
    /\ \E stored \in BOOLEAN :
          IF stored
          THEN /\ s3Errors' = Append(s3Errors, FatalErrorInfo)
               /\ pc' = "failed"
          ELSE /\ pc' = "thrown"
               /\ UNCHANGED s3Errors
    /\ UNCHANGED <<inputVars, storedProfile, failedAt, planVars,
                   s3RenderMetadata, fired, progressVars, finalizeVars,
                   expectedFiles>>

\* ---------------------------------------------------------- specification
Next ==
    \/ LaunchHandlerEntry
    \/ CheckFramesPerLambda
    \/ GetOptimization
    \/ ValidateComposition
    \/ Plan
    \/ WriteRenderMetadata
    \/ Dispatch
    \/ OnProgress
    \/ ProgressWriteSettles
    \/ ConcatVideosS3
    \/ UploadOut
    \/ CollectChunkInformation
    \/ WriteOptimizationSettles
    \/ LambdaLsSettles
    \/ JoinListing
    \/ FinalEncodingProgressSettles
    \/ InspectErrorsSettles
    \/ CleanupFilesSettles
    \/ AwaitErrorExplanations
    \/ AwaitDeletProm
    \/ AwaitFinalEncodingProgress
    \/ WritePostRenderData
    \/ CleanupLocal
    \/ CatchBlock

Spec == Init /\ [][Next]_vars

\* ------------------------------------------ planner and dispatcher at scale
\* Valid launch requests of up to MaxPlanFrames frames, followed until the
\* payload groups are sent.
PlanInit ==
    /\ params \in [type : {"launch"},
                   framesPerLambda : {<<n>> : n \in 1..MaxPlanFramesPerLambda},
                   enableChunkOptimization : BOOLEAN,
                   privacy : {"public"}]
    /\ comp \in [durationInFrames : 1..MaxPlanFrames, fps : {30},
                 height : {720}, width : {1280}]
    /\ storedProfile \in StoredProfiles(comp.durationInFrames,
                                        {1, comp.durationInFrames \div 2})
    /\ FreshHandler

PlanNext ==
    \/ LaunchHandlerEntry
    \/ CheckFramesPerLambda
    \/ GetOptimization
    \/ ValidateComposition
    \/ Plan
    \/ WriteRenderMetadata
    \/ Dispatch
    \/ CatchBlock

PlanSpec == PlanInit /\ [][PlanNext]_vars

\* --------------------------------------------- progress reporter at scale
\* Valid launch requests of ProgressFrameCounts frames, followed through
\* the onProgress calls of the concatenation.
ProgressInit ==
    /\ params \in [type : {"launch"},
                   framesPerLambda : {<<MaxPlanFramesPerLambda>>},
                   enableChunkOptimization : {FALSE},
                   privacy : {"public"}]
    /\ comp \in [durationInFrames : ProgressFrameCounts,
                 fps : {30}, height : {720}, width : {1280}]
    /\ storedProfile = NoProfile
    /\ FreshHandler

ProgressNext ==
    \/ LaunchHandlerEntry
    \/ CheckFramesPerLambda
    \/ GetOptimization
    \/ ValidateComposition
    \/ Plan
    \/ WriteRenderMetadata
    \/ Dispatch
    \/ OnProgressLong
    \/ CatchBlock

ProgressSpec == ProgressInit /\ [][ProgressNext]_vars
\* ================================================================ claims
\* helpers of the statements below
Planned == renderMetadata # NoMetadata

Dispatched == fired # <<>>

RECURSIVE Flatten(_)
Flatten(groups) ==
    IF groups = <<>> THEN <<>> ELSE Head(groups) \o Flatten(Tail(groups))

FatalWrites == {i \in 1..Len(errorWrites) : errorWrites[i].isFatal}

\* ranges cover [0, frameCount) in ascending order without gap or overlap,
\* each slice but the last of framesPerLambda frames
IsDefaultPartition(ranges, frameCount, framesPerLambda) ==
    LET n == Len(ranges)
    IN /\ n >= 1
       /\ (n - 1) * framesPerLambda < frameCount
       /\ frameCount <= n * framesPerLambda
       /\ ranges[1][1] = 0
       /\ ranges[n][2] = frameCount - 1
       /\ \A i \in 1..n : ranges[i][1] <= ranges[i][2]
       /\ \A i \in 1..(n - 1) :
             /\ ranges[i + 1][1] = ranges[i][2] + 1
             /\ RangeLength(ranges[i]) = framesPerLambda
       /\ RangeLength(ranges[n]) = frameCount - (n - 1) * framesPerLambda

\* C1: no payload group is sent unless the RenderMetadata object is in the
\* store, and a failed RenderMetadata write ends the launch in the catch
\* with no group sent.
C1_MetadataBeforeDispatch ==
    /\ Dispatched =>
          /\ s3RenderMetadata # NoMetadata
          /\ s3RenderMetadata = renderMetadata
    /\ failedAt = "writeRenderMetadata" =>
          /\ fired = <<>>
          /\ s3RenderMetadata = NoMetadata
          /\ pc \in {"catch", "failed", "thrown"}

C1_Witness ==
    /\ pc = "concatVideosS3"
    /\ Len(fired) >= 1
    /\ s3RenderMetadata.totalChunks = Len(chunks)

\* C2: without optimization the planned ranges are the default partition of
\* [0, frameCount): ceil(frameCount / framesPerLambda) ascending contiguous
\* slices of framesPerLambda frames, the last one shortened to fit; 97
\* frames at 20 per chunk give the lengths 20, 20, 20, 20, 17.
C2_DefaultPartition ==
    (Planned /\ ~didUseOptimization) =>
        /\ IsDefaultPartition(chunks, comp.durationInFrames,
                              params.framesPerLambda[1])
        /\ SumLengths(chunks) = comp.durationInFrames
        /\ (comp.durationInFrames = 97 /\ params.framesPerLambda[1] = 20) =>
              [i \in 1..Len(chunks) |-> RangeLength(chunks[i])]
                  = <<20, 20, 20, 20, 17>>

C2_Witness ==
    /\ Planned
    /\ ~didUseOptimization
    /\ comp.durationInFrames = 97
    /\ params.framesPerLambda[1] = 20
    /\ Len(chunks) = 5
    /\ chunks[5] = <<80, 96>>

\* C3: the planner returns the stored profile's ranges unchanged, flagged as
\* optimized, exactly when optimization is enabled and a profile of the
\* job's frame count was read; otherwise the default partition, unflagged.
C3_ProfileSubstitution ==
    Planned =>
        IF /\ params.enableChunkOptimization
           /\ optimization # NoProfile
           /\ optimization.frameCount = comp.durationInFrames
        THEN /\ chunks = optimization.frameRange
             /\ didUseOptimization
             /\ renderMetadata.usesOptimizationProfile
        ELSE /\ IsDefaultPartition(chunks, comp.durationInFrames,
                                   params.framesPerLambda[1])
             /\ ~didUseOptimization
             /\ ~renderMetadata.usesOptimizationProfile

C3_Witness ==
    /\ Planned
    /\ didUseOptimization
    /\ Len(chunks) = 3
    /\ chunks = optimization.frameRange
    /\ chunks[1][1] > chunks[2][1]
    /\ Len(chunks) # CeilDiv(comp.durationInFrames, params.framesPerLambda[1])

\* C4: the groups sent are round(sqrt(chunk count)) contiguous pieces of the
\* payload list, as many as the invokers counted into RenderMetadata's
\* estimated invocations; 5 chunks go out as 2 groups of 3 and 2 payloads.
C4_InvokerGroups ==
    Dispatched =>
        LET n == Len(chunks)
            k == Len(fired)
        IN /\ k * k - k < n
           /\ n <= k * k + k
           /\ s3RenderMetadata.estimatedTotalLambdaInvokations
                  = s3RenderMetadata.totalChunks + k
           /\ s3RenderMetadata.totalChunks = n
           /\ Flatten(fired) = LambdaPayloads(chunks)
           /\ n = 5 => [g \in 1..k |-> Len(fired[g])] = <<3, 2>>

C4_Witness ==
    /\ pc = "concatVideosS3"
    /\ comp.durationInFrames = 100
    /\ params.framesPerLambda[1] = 20
    /\ ~didUseOptimization
    /\ Len(chunks) = 5
    /\ Len(fired) = 2
    /\ Len(fired[1]) = 3
    /\ Len(fired[2]) = 2

\* the observation made by a step of onProgress
ObservationStep == observed' # observed
ObservedFrames == observed'[Len(observed')]
WriteSkipped == progressWrites' = progressWrites
ExactDeltaTimesTen == 10 * (ObservedFrames - lastProgressUploaded)

C6_WritesNonDecreasing ==
    \A i, j \in 1..Len(progressWrites) :
        i < j => progressWrites[i] <= progressWrites[j]

C6_Witness ==
    /\ Len(progressWrites) >= 2
    /\ Len(observed) = 4
    /\ observed[2] < observed[1]
    /\ observed[4] < observed[3]

\* C7: writePostRenderData is called only once the final EncodingProgress
\* write has resolved; after a rejected one it is never called.
C7_FinalProgressBeforeManifest ==
    /\ (postRenderWrites > 0 \/ pc = "writePostRenderData") =>
          finalEncodingProgressProm = "resolved"
    /\ finalEncodingProgressProm = "rejected" =>
          /\ postRenderWrites = 0
          /\ ~s3PostRenderData

C7_Witness ==
    /\ postRenderWrites = 1
    /\ s3PostRenderData
    /\ finalEncodingProgressProm = "resolved"

\* C8: writePostRenderData is called at most once, exactly once with success
\* on a launch that returns normally, and only after the concatenation, the
\* upload of the merged file, inspectErrors and the deletion of the
\* intermediate objects have completed.
C8_ManifestOnce ==
    /\ postRenderWrites <= 1
    /\ pc = "done" => (postRenderWrites = 1 /\ s3PostRenderData)
    /\ s3PostRenderData => postRenderWrites = 1
    /\ postRenderWrites > 0 =>
          /\ tmpFiles # "none"
          /\ s3Out
          /\ errorExplanationsProm = "resolved"
          /\ deletProm = "resolved"

C8_Witness ==
    /\ pc = "done"
    /\ postRenderWrites = 1
    /\ s3PostRenderData
    /\ deletProm = "resolved"

\* C9 as stated: every launch that ended with an exception has attempted
\* exactly one fatal ErrorInfo write, and a launch that returned has
\* attempted none.
C9_OneFatalWritePerFailure ==
    /\ pc \in {"failed", "thrown"} =>
          /\ Cardinality(FatalWrites) = 1
          /\ \A i \in FatalWrites :
                /\ errorWrites[i].attempt = 1
                /\ errorWrites[i].totalAttempts = 1
                /\ ~errorWrites[i].willRetry
                /\ errorWrites[i].chunk = "null"
                /\ errorWrites[i].frame = "null"
    /\ pc = "done" => FatalWrites = {}

\* C9, amended: a launch-typed invocation whose flow raised an exception has
\* attempted exactly one fatal ErrorInfo write (attempt 1 of 1, no retry, no
\* chunk, no frame) when the handler ends; a launch that returned, and an
\* invocation rejected for its type tag, have attempted none.
C9_OneFatalWritePerCaughtFailure ==
    /\ (pc \in {"failed", "thrown"} /\ failedAt # "launchHandler") =>
          /\ Cardinality(FatalWrites) = 1
          /\ \A i \in FatalWrites :
                /\ errorWrites[i].attempt = 1
                /\ errorWrites[i].totalAttempts = 1
                /\ ~errorWrites[i].willRetry
                /\ errorWrites[i].chunk = "null"
                /\ errorWrites[i].frame = "null"
    /\ (pc = "done" \/ failedAt = "launchHandler") => FatalWrites = {}
    /\ failedAt = "launchHandler" => pc = "thrown"
    /\ failedAt = "launchHandler" <=> params.type # "launch" /\ pc # "launchHandler"
    /\ Cardinality(FatalWrites) <= 1

C9_Witness ==
    /\ pc = "failed"
    /\ failedAt = "concatVideosS3"
    /\ Cardinality(FatalWrites) = 1
    /\ errorWrites[Len(errorWrites)] = FatalErrorInfo

\* the request fails one of the validations of innerLaunchHandler
InvalidRequest ==
    /\ params.type = "launch"
    /\ \/ params.framesPerLambda = <<>>
       \/ params.framesPerLambda[1] < 1
       \/ comp.durationInFrames < 1
       \/ comp.fps < 1
       \/ comp.height < 1
       \/ comp.width < 1
       \/ params.privacy \notin {"public", "private"}

\* C10: a request that fails validation never gets as far as planning: no
\* RenderMetadata, EncodingProgress, output, profile or manifest write and
\* no dispatch happens, and only the fatal error record is written.
C10_ValidationBeforeWrites ==
    InvalidRequest =>
        /\ pc \in {"launchHandler", "innerLaunchHandler", "getOptimization",
                   "validateComposition", "catch", "failed", "thrown"}
        /\ ~Planned
        /\ s3RenderMetadata = NoMetadata
        /\ s3EncodingProgress = NoProgress
        /\ progressWrites = <<>>
        /\ inflight = {}
        /\ ~s3Out
        /\ profileWrites = <<>>
        /\ postRenderWrites = 0
        /\ ~s3PostRenderData
        /\ fired = <<>>
        /\ errorWrites \in {<<>>, <<FatalErrorInfo>>}
        /\ pc \in {"failed", "thrown"} => errorWrites = <<FatalErrorInfo>>

C10_Witness ==
    /\ InvalidRequest
    /\ params.privacy = "bogus"
    /\ params.framesPerLambda # <<>>
    /\ params.framesPerLambda[1] >= 1
    /\ pc = "failed"
    /\ failedAt = "validateComposition"
    /\ errorWrites = <<FatalErrorInfo>>

\* a step in which a throttled EncodingProgress write settles, and one in
\* which it is rejected (the stored object is not the one that was in flight)
ProgressWriteSettled == Cardinality(inflight') < Cardinality(inflight)
ProgressWriteRejected ==
    /\ ProgressWriteSettled
    /\ s3EncodingProgress' \notin (inflight \ inflight')

\* C11: a rejected throttled EncodingProgress write hands exactly one
\* ErrorInfo with isFatal = false and willRetry = false to writeLambdaError,
\* raises no exception in the handler (its position is unchanged, no fatal
\* record is added), and the launch can still run to the manifest.
C11_ProgressWriteFailureNonFatal ==
    [][ProgressWriteRejected =>
          /\ errorWrites' = Append(errorWrites, ProgressErrorInfo)
          /\ ~errorWrites'[Len(errorWrites')].isFatal
          /\ ~errorWrites'[Len(errorWrites')].willRetry
          /\ pc' = pc
          /\ failedAt' = failedAt
          /\ s3EncodingProgress' = s3EncodingProgress]_vars

C11_Witness ==
    /\ pc = "done"
    /\ s3PostRenderData
    /\ tmpFiles = "released"
    /\ progressWrites # <<>>
    /\ errorWrites = <<ProgressErrorInfo>>

\* C12: on every path that ends the handler after concatVideosS3 produced
\* its scratch directories and the local merged file, they have been
\* released, whether the launch returned or a later step failed.
C12_TmpReleasedOnEveryEnd ==
    pc \in {"done", "failed", "thrown"} => tmpFiles # "present"

\* ranges cover every frame of [0, frameCount) exactly once, none is empty
IsExactPartition(ranges, frameCount) ==
    /\ \A i \in 1..Len(ranges) :
          /\ 0 <= ranges[i][1]
          /\ ranges[i][1] <= ranges[i][2]
          /\ ranges[i][2] <= frameCount - 1
    /\ \A f \in 0..(frameCount - 1) :
          Cardinality({i \in 1..Len(ranges) :
                          ranges[i][1] <= f /\ f <= ranges[i][2]}) = 1

\* C13: a profile is handed to writeOptimization only when chunk
\* optimization was requested and the optimized ranges are an exact
\* partition of the render's frames; optimized ranges that are not (the
\* last frame missing, an empty range) are dropped: no profile write, no
\* exception, the profile write counted as done.  Nothing but exact
\* partitions ever lies under the composition's profile key.
C13_OnlyValidProfilesWritten ==
    /\ Len(profileWrites) <= 1
    /\ \A i \in 1..Len(profileWrites) :
          /\ params.enableChunkOptimization
          /\ profileWrites[i].frameRange = optimizedFrameRange
          /\ profileWrites[i].frameCount = comp.durationInFrames
          /\ IsExactPartition(profileWrites[i].frameRange,
                              comp.durationInFrames)
          /\ SumLengths(profileWrites[i].frameRange) = comp.durationInFrames
    /\ ~params.enableChunkOptimization =>
          (optimizedFrameRange = <<>> /\ profileWrites = <<>>)
    /\ (/\ optimizedFrameRange # <<>>
        /\ ~IsExactPartition(optimizedFrameRange, comp.durationInFrames)) =>
          /\ profileWrites = <<>>
          /\ chunkProm = "resolved"
          /\ failedAt # "collectChunkInformation"
    /\ (/\ optimizedFrameRange # <<>>
        /\ SumLengths(optimizedFrameRange) = comp.durationInFrames - 1) =>
          profileWrites = <<>>
    /\ storedProfile # NoProfile =>
          IsExactPartition(storedProfile.frameRange, storedProfile.frameCount)

C13_Witness ==
    /\ params.enableChunkOptimization
    /\ comp.durationInFrames = 2
    /\ optimizedFrameRange = <<<<0, 0>>>>
    /\ profileWrites = <<>>
    /\ pc = "done"
    /\ s3PostRenderData
    /\ errorWrites = <<>>

\* C14: an invocation whose type tag is not 'launch' is rejected by the
\* first statement of launchHandler: the exception leaves the handler, and
\* no read of the profile or of the listing, no write to the store (error
\* records included) and no InvokeCommand has happened.
C14_TypeMismatchFailsFast ==
    params.type # "launch" =>
        /\ pc \in {"launchHandler", "thrown"}
        /\ pc = "thrown" => failedAt = "launchHandler"
        /\ optimization = NoProfile
        /\ lsProm = "none"
        /\ ~Planned
        /\ fired = <<>>
        /\ errorWrites = <<>>
        /\ s3Errors = <<>>
        /\ s3RenderMetadata = NoMetadata
        /\ progressWrites = <<>>
        /\ inflight = {}
        /\ s3EncodingProgress = NoProgress
        /\ ~s3Out
        /\ profileWrites = <<>>
        /\ finalEncodingProgressProm = "none"
        /\ postRenderWrites = 0
        /\ ~s3PostRenderData

C14_Witness ==
    /\ params.type = "renderer"
    /\ pc = "thrown"
    /\ failedAt = "launchHandler"
    /\ storedProfile # NoProfile
    /\ errorWrites = <<>>

\* the launch flow raised an exception that reached the catch of launchHandler
FlowFailed == failedAt \notin {"none", "launchHandler"}

\* C15: when the launch flow has failed, the handler ends normally whether
\* or not the fatal ErrorInfo reached the store: a rejected error-record
\* write never leaves launchHandler as an exception.
C15_ErrorWriteFailureSwallowed ==
    FlowFailed => pc # "thrown"

\* C16 as stated: the profile write neither holds up nor fails the launch:
\* once the listing is there the handler can go past the join whatever the
\* state of the profile write, and the join fails only for the listing.
C16_ProfileWriteIndependent ==
    /\ (pc = "joinListing" /\ lsProm = "resolved") => ENABLED JoinListing
    /\ failedAt = "joinListing" => lsProm = "rejected"

\* C16, amended: the profile write is started without being awaited and
\* runs alongside the listing, but the two are joined before anything of
\* the finalize phase: the final EncodingProgress write and the manifest
\* write happen only after the profile write resolved, and a rejected
\* profile write ends the launch in the catch with one fatal ErrorInfo and
\* neither of the two writes.
C16_ProfileWriteJoinedWithListing ==
    /\ chunkProm = "pending" => lsProm # "none"
    /\ finalEncodingProgressProm # "none" =>
          (chunkProm = "resolved" /\ lsProm = "resolved")
    /\ postRenderWrites > 0 => chunkProm = "resolved"
    /\ chunkProm = "rejected" =>
          /\ pc \in {"joinListing", "catch", "failed", "thrown"}
          /\ finalEncodingProgressProm = "none"
          /\ postRenderWrites = 0
          /\ ~s3PostRenderData
          /\ pc # "joinListing" =>
                (failedAt = "joinListing" /\ profileWrites # <<>>)
          /\ pc \in {"failed", "thrown"} => Cardinality(FatalWrites) = 1

C16_Witness ==
    /\ pc = "failed"
    /\ failedAt = "joinListing"
    /\ chunkProm = "rejected"
    /\ lsProm = "resolved"
    /\ Len(profileWrites) = 1
    /\ finalEncodingProgressProm = "none"
    /\ s3Errors = <<FatalErrorInfo>>

\* what the handler has started so far: groups sent, writes and deletions
\* issued (a write that was issued earlier may still be settling)
issuedByHandler ==
    <<s3RenderMetadata, fired, progressWrites, s3Out, profileWrites,
      finalEncodingProgressProm # "none", deletProm # "none",
      postRenderWrites>>

\* C17: once the manifest is in the store no fatal ErrorInfo is recorded
\* any more, and once a fatal ErrorInfo was handed to writeLambdaError the
\* handler starts no further write, deletion or dispatch.
C17_FinalizedAndFailedTerminal ==
    [][/\ s3PostRenderData => FatalWrites' = FatalWrites
       /\ FatalWrites # {} =>
             /\ issuedByHandler' = issuedByHandler
             /\ FatalWrites' = FatalWrites]_vars

\* C18: under every order in which the un-awaited throttled writes and the
\* final EncodingProgress write settle, the stored framesEncoded never
\* decreases, and once the manifest is in the store the stored object is
\* the final one (all frames, timeToInvoke computed).
C18_StoredProgressNeverRegresses ==
    [][/\ s3EncodingProgress'.framesEncoded >= s3EncodingProgress.framesEncoded
       /\ s3PostRenderData' =>
             s3EncodingProgress' =
                 FinalEncodingProgress(comp.durationInFrames, encodingStop')]_vars

\* C19: the number of chunk outputs concatVideosS3 is told to wait for, and
\* the chunk count getFilesToDelete is given, equal the number of renderer
\* payloads sent and the totalChunks of the stored RenderMetadata, also
\* when the chunks come from a stored profile.
C19_ExpectedFilesMatchDispatch ==
    /\ expectedFiles # 0 =>
          /\ expectedFiles = Len(Flatten(fired))
          /\ expectedFiles = s3RenderMetadata.totalChunks
    /\ deletProm # "none" =>
          /\ chunkCount = Len(Flatten(fired))
          /\ chunkCount = s3RenderMetadata.totalChunks

\* C20: the payloads sent are one per planned chunk, in the planner's
\* order, each with attempt 1 and with the number of chunks that start
\* before its own as chunk index, so that the indices are 0..n-1 whatever
\* the order of the ranges in a stored profile.
C20_PayloadPerChunk ==
    Dispatched =>
        \A payloads \in {Flatten(fired)} :
            /\ Len(payloads) = Len(chunks)
            /\ \A i \in 1..Len(chunks) :
                  /\ payloads[i].frameRange = chunks[i]
                  /\ payloads[i].attempt = 1
                  /\ payloads[i].chunk =
                         Cardinality({j \in 1..Len(chunks) :
                                         chunks[j][1] < chunks[i][1]})
            /\ {payloads[i].chunk : i \in 1..Len(payloads)}
                   = 0..(Len(chunks) - 1)

C20_Witness ==
    /\ pc = "concatVideosS3"
    /\ didUseOptimization
    /\ chunks = <<<<50, 99>>, <<1, 49>>, <<0, 0>>>>
    /\ Len(fired) = 2
    /\ fired[1][1].chunk = 2
    /\ fired[1][2].chunk = 1
    /\ fired[2][1].chunk = 0

\* the payloads of one group sent, as a set
GroupPayloads(g) == {fired[g][i] : i \in 1..Len(fired[g])}

\* C21: the groups sent share no payload, read one after the other they
\* are the payload list (one payload per planned chunk, in order), so each
\* chunk is submitted in exactly one group; with at least as many chunks as
\* invokers no group is empty.
C21_GroupsPartitionPayloads ==
    Dispatched =>
        /\ \A g, h \in 1..Len(fired) :
              g # h => GroupPayloads(g) \cap GroupPayloads(h) = {}
        /\ \A payloads \in {Flatten(fired)} :
              /\ Len(payloads) = Len(chunks)
              /\ \A i \in 1..Len(chunks) : payloads[i].frameRange = chunks[i]
        /\ \A c \in 1..Len(chunks) :
              Cardinality({g \in 1..Len(fired) :
                  \E p \in GroupPayloads(g) : p.frameRange = chunks[c]}) = 1
        /\ Len(chunks) >= Len(fired) =>
              \A g \in 1..Len(fired) : fired[g] # <<>>

C21_Witness ==
    /\ pc = "concatVideosS3"
    /\ Len(chunks) = 7
    /\ invokers = 3
    /\ [g \in 1..Len(fired) |-> Len(fired[g])] = <<3, 2, 2>>
    /\ fired[2][1].frameRange = chunks[4]

\* C22: the stop timestamp is recorded by the first observation of all
\* frames only: an observation of all frames made when it is already
\* recorded leaves it unchanged, and an observation of fewer frames never
\* sets or changes it.
C22_EncodingStopFirstTimeOnly ==
    [][ObservationStep =>
          /\ (ObservedFrames = comp.durationInFrames /\ encodingStop = 0) =>
                encodingStop' = now
          /\ (ObservedFrames = comp.durationInFrames /\ encodingStop # 0) =>
                encodingStop' = encodingStop
          /\ ObservedFrames < comp.durationInFrames =>
                encodingStop' = encodingStop]_vars

====
